---- MODULE Spec2Model ----
(***************************************************************************)
(* Model of server/apps/preferences.py: the preferences resource of        *)
(* Superdesk.  The state is the users collection (the preference fields    *)
(* of every user document), the PATCH requests in flight (each one reads   *)
(* the original document, then runs on_update and update) and a record of  *)
(* the last call that completed (set_session_based_prefs, PATCH, GET,      *)
(* is_authorized).                                                         *)
(***************************************************************************)
EXTENDS Integers, Sequences, FiniteSets, TLC

(* ------------------------------ bounds --------------------------------- *)
MaxUsers == 1
MaxSessions == 3
MaxRequests == 2
MaxPayloadKeys == 1
MaxPatches == 2

Users == 1..MaxUsers
SessionIds == (MaxUsers + 1)..(MaxUsers + MaxSessions)
Requests == 1..MaxRequests

(* ------------------------------ dicts ---------------------------------- *)
EmptyDict == [k \in {} |-> ""]

\* dict.update(other): the keys of other win
DictUpdate(d, other) ==
    [k \in (DOMAIN d) \cup (DOMAIN other) |->
        IF k \in DOMAIN other THEN other[k] ELSE d[k]]

\* dict.setdefault(key, value): only sets a key that is absent
SetDefault(d, key, value) ==
    IF key \in DOMAIN d THEN d ELSE DictUpdate(d, key :> value)

\* dict.get(key, default)
Get(d, key, default) == IF key \in DOMAIN d THEN d[key] ELSE default

\* str(): ids are rendered as their decimal text, None as "None"
Str(x) == ToString(x)

(* ----------------------------- registry -------------------------------- *)
\* superdesk.default_user_preferences after the registrations of
\* PreferencesResource; every definition dict is one abstract value
default_user_preferences ==
    ("feature:preview" :> "feature:preview/default") @@
    ("archive:view" :> "mgrid") @@
    ("editor:theme" :> "editor:theme/default") @@
    ("workqueue:items" :> "workqueue:items/default")

\* superdesk.default_session_preferences; "[]" is the empty list, "" the
\* empty string
default_session_preferences ==
    ("scratchpad:items" :> "[]") @@
    ("desk:last_worked" :> "") @@
    ("desk:items" :> "[]") @@
    ("stage:items" :> "[]") @@
    ("pinned:items" :> "[]")

(* ------------------------- external services --------------------------- *)
\* the sessions collection: session id -> owning user id.  User 0 is a
\* user that no longer exists.
SessionUser(s) == (s - MaxUsers) % (MaxUsers + 1)

\* get_resource_service('sessions').find_one(req=None, _id=S): the set of
\* matching sessions (empty when None is returned)
sessions_find_one(S) == {s \in SessionIds : Str(s) = S}

Roles == {"", "editor"}

\* users.get_role(user_doc): the role named by the document, "" when the
\* document names none
get_role(doc) == IF "role" \in DOMAIN doc THEN doc.role ELSE ""

\* users.set_privileges(user_doc, role_doc): the privilege map of the role,
\* which the caller finds in user_doc['active_privileges']
set_privileges(role) ==
    IF role = "editor" THEN {"archive", "publish"} ELSE {}

\* superdesk.workflow.get_privileged_actions(privileges)
get_privileged_actions(privileges) ==
    {a \in {"fetch", "publish"} :
        (IF a = "fetch" THEN "archive" ELSE "publish") \in privileges}

\* backend.update(datasource, id, updates, original): $set of the fields
\* present in updates on the stored document
backend_update(doc, updates) == DictUpdate(doc, updates)

(* ------------------------------ service -------------------------------- *)
\* enhance_document_with_user_privileges(user_doc)
enhance_document_with_user_privileges(user_doc) ==
    DictUpdate(user_doc,
               "active_privileges" :> set_privileges(get_role(user_doc)))

\* lines 110-111 / 151-152: privileges, then the actions they allow
WithPrivilegesAndActions(updates) ==
    LET enhanced == enhance_document_with_user_privileges(updates)
    IN  DictUpdate(enhanced,
            "allowed_actions" :>
                get_privileged_actions(enhanced["active_privileges"]))

\* defaults written over the legacy values instead of under them
SeedUserPrefsDefaultsWin(user_doc) ==
    IF "user_preferences" \notin DOMAIN user_doc
    THEN "user_preferences" :>
            DictUpdate(Get(user_doc, "preferences", EmptyDict),
                       default_user_preferences)
    ELSE EmptyDict

\* set_session_based_prefs, lines 95-100: the user_preferences part of updates
SeedUserPrefs(user_doc) ==
    IF "user_preferences" \notin DOMAIN user_doc
    THEN "user_preferences" :>
            DictUpdate(default_user_preferences,
                       Get(user_doc, "preferences", EmptyDict))
    ELSE EmptyDict

\* the defaults without the user's desk
AvailableSessionPrefsNoDesk(user_doc) == default_session_preferences

\* set_session_based_prefs, lines 103-105: the defaults of a new session
AvailableSessionPrefs(user_doc) ==
    IF default_session_preferences["desk:last_worked"] = ""
       /\ Get(user_doc, "desk", "") # ""
    THEN DictUpdate(default_session_preferences,
                    "desk:last_worked" :> user_doc["desk"])
    ELSE default_session_preferences

\* the session's entry assigned instead of set by setdefault
SeedSessionPrefsOverwrite(session_id, user_doc) ==
    "session_preferences" :>
        DictUpdate(Get(user_doc, "session_preferences", EmptyDict),
                   Str(session_id) :> AvailableSessionPrefs(user_doc))

\* set_session_based_prefs, lines 102-108
SeedSessionPrefs(session_id, user_doc) ==
    "session_preferences" :>
        SetDefault(Get(user_doc, "session_preferences", EmptyDict),
                   Str(session_id),
                   AvailableSessionPrefs(user_doc))

\* the updates set_session_based_prefs hands to backend.update
SessionBasedUpdates(session_id, user_doc) ==
    WithPrivilegesAndActions(
        DictUpdate(SeedUserPrefs(user_doc),
                   SeedSessionPrefs(session_id, user_doc)))

\* the fields the datasource projection keeps (lines 38-46), plus _id
ProjectedFields ==
    {"session_preferences", "user_preferences", "active_privileges",
     "allowed_actions"}

Project(doc) == [f \in (DOMAIN doc) \cap ProjectedFields |-> doc[f]]

\* find_one(req, _id=S): the set holding the returned document (empty when
\* None is returned).  The _id of a document is kept in its text form.
find_one(S, users) ==
    LET session == sessions_find_one(S)
        _id == IF session # {}
               THEN Str(SessionUser(CHOOSE s \in session : TRUE))
               ELSE S
        found == {u \in DOMAIN users : Str(u) = _id}
    IN  {DictUpdate(Project(users[u]),
                    "_id" :> (IF session # {}
                              THEN Str(CHOOSE s \in session : TRUE)
                              ELSE _id)) : u \in found}

\* on_fetched_item(doc) with request.view_args['_id'] = session_id
on_fetched_item(doc, session_id) ==
    LET session_prefs == Get(doc, "session_preferences", EmptyDict)
    IN  IF session_id \notin DOMAIN session_prefs
        THEN [outcome |-> "KeyError", doc |-> doc]
        ELSE [outcome |-> "ok",
              doc |-> DictUpdate(doc, "session_preferences" :>
                                          session_prefs[session_id])]

\* the membership test inverted: the registered keys are the invalid ones
InvalidKeysInverted(prefs, registry) == (DOMAIN prefs) \cap (DOMAIN registry)

\* lines 136 and 145: the keys of a payload map that the registry does not
\* hold
InvalidKeys(prefs, registry) == (DOMAIN prefs) \ (DOMAIN registry)

\* the payload assigned instead of merged into the existing map
MergeUserPrefsReplace(existing_user_preferences, user_prefs) == user_prefs

\* lines 139-140: existing_user_preferences.update(user_prefs)
MergeUserPrefs(existing_user_preferences, user_prefs) ==
    DictUpdate(existing_user_preferences, user_prefs)

\* lines 148-149: existing_session_preferences[session_id].update(session_prefs)
MergeSessionPrefs(existing_session_preferences, session_id, session_prefs) ==
    DictUpdate(existing_session_preferences,
               session_id :> DictUpdate(existing_session_preferences[session_id],
                                        session_prefs))

\* on_update(updates, original) with request.view_args['_id'] = session_id:
\* the exception raised ("ok" when none) and updates as the handler leaves it
on_update(updates, original, session_id) ==
    LET existing_user_preferences ==
            Get(original, "user_preferences", EmptyDict)
        existing_session_preferences ==
            Get(original, "session_preferences", EmptyDict)
        has_user_prefs == "user_preferences" \in DOMAIN updates
        has_session_prefs == "session_preferences" \in DOMAIN updates
        merged_user ==
            IF has_user_prefs
            THEN DictUpdate(updates, "user_preferences" :>
                    MergeUserPrefs(existing_user_preferences,
                                   updates["user_preferences"]))
            ELSE updates
        merged_session ==
            IF has_session_prefs
            THEN DictUpdate(merged_user, "session_preferences" :>
                    MergeSessionPrefs(existing_session_preferences,
                                      session_id,
                                      updates["session_preferences"]))
            ELSE merged_user
    IN  IF has_user_prefs
           /\ InvalidKeys(updates["user_preferences"],
                          default_user_preferences) # {}
        THEN [outcome |-> "ValidationError", updates |-> updates]
        ELSE IF has_session_prefs
                /\ InvalidKeys(updates["session_preferences"],
                               default_session_preferences) # {}
        THEN [outcome |-> "ValidationError", updates |-> merged_user]
        ELSE IF has_session_prefs
                /\ session_id \notin DOMAIN existing_session_preferences
        THEN [outcome |-> "KeyError", updates |-> merged_user]
        ELSE [outcome |-> "ok",
              updates |-> WithPrivilegesAndActions(merged_session)]

\* update(id, updates, original): the exception raised ("ok" when none) and
\* the users collection afterwards
update(updates, original, users) ==
    LET session == sessions_find_one(original["_id"])
        owner == {u \in DOMAIN users :
                     \E s \in session : u = SessionUser(s)}
    IN  IF session = {} \/ owner = {}
        THEN [outcome |-> "TypeError", users |-> users]
        ELSE [outcome |-> "ok",
              users |-> [u \in DOMAIN users |->
                            IF u \in owner
                            THEN backend_update(users[u], updates)
                            ELSE users[u]]]

\* is_authorized(user_id=...) with g.user['_id'] = g_user; user_id is <<>>
\* for None and <<S>> for the identifier S
is_authorized(user_id, g_user) ==
    IF user_id = <<>>
    THEN "False"
    ELSE LET session == sessions_find_one(user_id[1])
         IN  IF session = {}
             THEN "AttributeError"
             ELSE IF \E s \in session : Str(g_user) = Str(SessionUser(s))
             THEN "True"
             ELSE "False"

(* ------------------------------ inputs --------------------------------- *)
\* the identifiers a request may carry: every user id, every session id and
\* one id (0) that names nothing
Identifiers == {Str(x) : x \in 0..(MaxUsers + MaxSessions)}

LegacyMaps ==
    {EmptyDict, "archive:view" :> "compact", "legacy:setting" :> "on"}

Desks == {"", "desk42"}

InitialDocs ==
    {("preferences" :> legacy) @@ ("desk" :> desk) @@ ("role" :> role) :
        legacy \in LegacyMaps, desk \in Desks, role \in Roles}

PayloadUserKeys == {"archive:view", "unknown:key"}
PayloadSessionKeys == {"desk:last_worked", "unknown:key"}

PrefMaps(keys) ==
    {[k \in K |-> "patched"] :
        K \in {X \in SUBSET keys :
                  X # {} /\ Cardinality(X) <= MaxPayloadKeys}}

OptionalField(name, values) == {EmptyDict} \cup {name :> v : v \in values}

ForgedFields ==
    {EmptyDict,
     ("active_privileges" :> {"forged"}) @@ ("allowed_actions" :> {"forged"})}

Payloads ==
    {DictUpdate(DictUpdate(up, sp), forged) :
        up \in OptionalField("user_preferences", PrefMaps(PayloadUserKeys)),
        sp \in OptionalField("session_preferences",
                             PrefMaps(PayloadSessionKeys)),
        forged \in ForgedFields}

(* ------------------------------- state --------------------------------- *)
VARIABLES
    store,      \* the users collection: user id -> user document
    pc,         \* request -> "idle", or "fetched" once the original is read
    req,        \* request -> the identifier and the original document
    last,       \* the last call that completed: its inputs, its outcome,
                \* the users collection before it and the document it
                \* returned; cleared when a PATCH request starts
    npatches    \* PATCH requests started so far

vars == <<store, pc, req, last, npatches>>

IdleReq == [id |-> "", original |-> EmptyDict]

NoCall == [op |-> "", id |-> "", caller |-> 0, payload |-> EmptyDict,
           original |-> EmptyDict, outcome |-> "", before |-> EmptyDict,
           doc |-> EmptyDict]

Init ==
    /\ store \in [Users -> InitialDocs]
    /\ pc = [r \in Requests |-> "idle"]
    /\ req = [r \in Requests |-> IdleReq]
    /\ last = NoCall
    /\ npatches = 0

\* set_session_based_prefs(session_id, user_id), called when a session of an
\* existing user is created
SetSessionBasedPrefs(session_id) ==
    LET user_id == SessionUser(session_id) IN
    /\ user_id \in DOMAIN store
    /\ store' = [store EXCEPT ![user_id] =
                    backend_update(@, SessionBasedUpdates(session_id, @))]
    /\ last' = [NoCall EXCEPT !.op = "set_session_based_prefs",
                              !.id = Str(session_id),
                              !.outcome = "ok",
                              !.before = store]
    /\ UNCHANGED <<pc, req, npatches>>

\* PATCH /preferences/S, first step: the framework reads the original
\* document through find_one and answers 404 when there is none.  A request
\* takes the lowest free slot.
Fetch(r, S) ==
    LET found == find_one(S, store) IN
    /\ npatches < MaxPatches
    /\ pc[r] = "idle"
    /\ \A q \in Requests : q < r => pc[q] # "idle"
    /\ npatches' = npatches + 1
    /\ IF found = {}
       THEN /\ last' = [NoCall EXCEPT !.op = "PATCH", !.id = S,
                                      !.outcome = "NotFound"]
            /\ UNCHANGED <<pc, req>>
       ELSE /\ pc' = [pc EXCEPT ![r] = "fetched"]
            /\ req' = [req EXCEPT ![r] =
                          [id |-> S, original |-> CHOOSE d \in found : TRUE]]
            /\ last' = NoCall
    /\ UNCHANGED store

\* what the framework does with the payload of a PATCH once it holds the
\* original: on_update, and update unless on_update raised
patch_item(payload, original, session_id, users) ==
    LET handled == on_update(payload, original, session_id)
    IN  IF handled.outcome # "ok"
        THEN [outcome |-> handled.outcome, users |-> users]
        ELSE update(handled.updates, original, users)

\* PATCH, second step: on_update and update.  on_update reads the payload,
\* the original and the registry only, so it is taken together with update.
OnUpdateAndUpdate(r, payload) ==
    /\ pc[r] = "fetched"
    /\ \E result \in
           {patch_item(payload, req[r].original, req[r].id, store)} :
           /\ store' = result.users
           /\ last' = [NoCall EXCEPT !.op = "PATCH",
                                     !.id = req[r].id,
                                     !.payload = payload,
                                     !.original = req[r].original,
                                     !.outcome = result.outcome,
                                     !.before = store]
    /\ pc' = [pc EXCEPT ![r] = "idle"]
    /\ req' = [req EXCEPT ![r] = IdleReq]
    /\ UNCHANGED npatches

\* no PATCH request is in flight.  A read-only call returns what the store
\* holds, and every store a request in flight sees is also seen with that
\* request not yet started, so the read-only calls are taken here.
Quiet == \A r \in Requests : pc[r] = "idle"

\* GET /preferences/S: find_one, then on_fetched_item
get_item(S, users) ==
    LET found == find_one(S, users)
    IN  IF found = {}
        THEN [outcome |-> "NotFound", doc |-> EmptyDict]
        ELSE on_fetched_item(CHOOSE d \in found : TRUE, S)

GetItem(S) ==
    /\ Quiet
    /\ \E result \in {get_item(S, store)} :
           last' = [NoCall EXCEPT !.op = "GET", !.id = S,
                                  !.outcome = result.outcome,
                                  !.before = store,
                                  !.doc = result.doc]
    /\ UNCHANGED <<store, pc, req, npatches>>

\* is_authorized(user_id=...) for the logged-in user g_user
IsAuthorized(user_id, g_user) ==
    /\ Quiet
    /\ last' = [NoCall EXCEPT !.op = "is_authorized",
                              !.id = IF user_id = <<>> THEN "None"
                                     ELSE user_id[1],
                              !.caller = g_user,
                              !.before = store,
                              !.outcome = is_authorized(user_id, g_user)]
    /\ UNCHANGED <<store, pc, req, npatches>>

Next ==
    \/ \E s \in SessionIds : SetSessionBasedPrefs(s)
    \/ \E r \in Requests, S \in Identifiers : Fetch(r, S)
    \/ \E r \in Requests, payload \in Payloads : OnUpdateAndUpdate(r, payload)
    \/ \E S \in Identifiers : GetItem(S)
    \/ \E user_id \in {<<>>} \cup {<<S>> : S \in Identifiers}, u \in Users :
           IsAuthorized(user_id, u)

Spec == Init /\ [][Next]_vars

\* the specification of requests served one at a time: a PATCH request runs
\* from find_one to update before any other call starts
SeqNext ==
    \/ Quiet /\ \E s \in SessionIds : SetSessionBasedPrefs(s)
    \/ Quiet /\ \E r \in Requests, S \in Identifiers : Fetch(r, S)
    \/ \E r \in Requests, payload \in Payloads : OnUpdateAndUpdate(r, payload)
    \/ \E S \in Identifiers : GetItem(S)
    \/ \E user_id \in {<<>>} \cup {<<S>> : S \in Identifiers}, u \in Users :
           IsAuthorized(user_id, u)

SeqSpec == Init /\ [][SeqNext]_vars

(* ----------------------------- properties ------------------------------ *)
\* the user whose document the last call addressed through session last.id
LastUsers ==
    {u \in DOMAIN store :
        \E s \in SessionIds : Str(s) = last.id /\ SessionUser(s) = u}

UserPrefs(doc) == Get(doc, "user_preferences", EmptyDict)
SessionPrefs(doc) == Get(doc, "session_preferences", EmptyDict)

RegisteredUserKeys ==
    {"feature:preview", "archive:view", "editor:theme", "workqueue:items"}
RegisteredSessionKeys ==
    {"scratchpad:items", "desk:last_worked", "desk:items", "stage:items",
     "pinned:items"}

\* the PATCH payload names a key that is in no registry
PayloadHasUnregisteredKey(payload) ==
    \/ /\ "user_preferences" \in DOMAIN payload
       /\ ~(DOMAIN payload["user_preferences"] \subseteq RegisteredUserKeys)
    \/ /\ "session_preferences" \in DOMAIN payload
       /\ ~(DOMAIN payload["session_preferences"]
               \subseteq RegisteredSessionKeys)

PatchRan == last.op = "PATCH" /\ last.outcome # "NotFound"
PatchOk == last.op = "PATCH" /\ last.outcome = "ok"
Initialized == last.op = "set_session_based_prefs"

\* C1: an update whose user_preferences or session_preferences payload
\* names an unregistered key ends in a validation error and the stored
\* documents are what they were before the call, also when the other
\* payload map names registered keys only.
C1_UnregisteredKeyRejected ==
    (PatchRan /\ PayloadHasUnregisteredKey(last.payload))
        => (last.outcome = "ValidationError" /\ store = last.before)

\* C1 witness: the session payload names an unregistered key while the
\* user payload names a registered one, and the request was rejected
C1_Witness ==
    /\ PatchRan
    /\ last.outcome = "ValidationError"
    /\ "user_preferences" \in DOMAIN last.payload
    /\ DOMAIN last.payload["user_preferences"] = {"archive:view"}
    /\ "session_preferences" \in DOMAIN last.payload
    /\ "unknown:key" \in DOMAIN last.payload["session_preferences"]
    /\ LastUsers # {}

\* C2: whatever the interleaving of the requests, a successful update for
\* session A does not change the stored session_preferences entry of another
\* session B (taken over the entries that existed when A read the original).
C2_SessionIsolation ==
    PatchOk =>
        \A u \in LastUsers :
            \A B \in (DOMAIN SessionPrefs(last.original)) \ {last.id} :
                /\ B \in DOMAIN SessionPrefs(last.before[u])
                /\ B \in DOMAIN SessionPrefs(store[u])
                /\ SessionPrefs(store[u])[B] = SessionPrefs(last.before[u])[B]

\* C3: after a successful update the stored active_privileges are the
\* resolver's output for the stored (post-update) user document and
\* allowed_actions are the actions those privileges permit.
C3_PrivilegesOfStoredDocument ==
    PatchOk =>
        \A u \in LastUsers :
            /\ store[u]["active_privileges"]
                  = set_privileges(get_role(store[u]))
            /\ store[u]["allowed_actions"]
                  = get_privileged_actions(set_privileges(get_role(store[u])))

C5_OnlyRegisteredKeysStored ==
    \A u \in DOMAIN store :
        /\ DOMAIN UserPrefs(store[u]) \subseteq RegisteredUserKeys
        /\ \A S \in DOMAIN SessionPrefs(store[u]) :
               DOMAIN SessionPrefs(store[u])[S] \subseteq RegisteredSessionKeys

\* C6: set_session_based_prefs on a document without user_preferences
\* stores every registered key, with the legacy value when the legacy map
\* has the key and the registry default otherwise; on a document with
\* user_preferences it leaves that map as it is.
C6_UserPrefsSeeded ==
    Initialized =>
        \A u \in LastUsers :
            LET prior == last.before[u]
                legacy == Get(prior, "preferences", EmptyDict)
            IN  IF "user_preferences" \in DOMAIN prior
                THEN /\ "user_preferences" \in DOMAIN store[u]
                     /\ store[u]["user_preferences"]
                            = prior["user_preferences"]
                ELSE /\ "user_preferences" \in DOMAIN store[u]
                     /\ \A K \in RegisteredUserKeys :
                           /\ K \in DOMAIN store[u]["user_preferences"]
                           /\ store[u]["user_preferences"][K] =
                                 IF K \in DOMAIN legacy THEN legacy[K]
                                 ELSE default_user_preferences[K]

\* C6 witness: a document with a legacy archive:view and no user_preferences
\* has been initialized
C6_Witness ==
    /\ Initialized
    /\ \E u \in LastUsers :
          /\ "user_preferences" \notin DOMAIN last.before[u]
          /\ "archive:view" \in DOMAIN Get(last.before[u], "preferences",
                                           EmptyDict)
          /\ UserPrefs(store[u])["archive:view"] = "compact"

\* C7: is_authorized returns True exactly when the session named by user_id
\* exists and is owned by the caller, and returns False in every other case.
C7_AuthorizedOrFalse ==
    last.op = "is_authorized" =>
        last.outcome =
            (IF \E s \in SessionIds :
                    Str(s) = last.id /\ SessionUser(s) = last.caller
             THEN "True" ELSE "False")

\* C8: a fetch for S returns the owner's document with _id S and
\* session_preferences replaced by the stored entry for S; without a user
\* document or without an entry for S the outcome is not-found.
C8_FetchOrNotFound ==
    last.op = "GET" =>
        LET docs == {d \in {store[u] : u \in LastUsers}
                        \cup {store[u] : u \in {v \in DOMAIN store :
                                 sessions_find_one(last.id) = {}
                                 /\ Str(v) = last.id}} :
                        last.id \in DOMAIN SessionPrefs(d)}
        IN  IF docs = {}
            THEN last.outcome = "NotFound"
            ELSE /\ last.outcome = "ok"
                 /\ last.doc["_id"] = last.id
                 /\ \E d \in docs :
                        last.doc["session_preferences"]
                            = SessionPrefs(d)[last.id]

\* C9: set_session_based_prefs adds an entry for its session id only when
\* there is none, keeps an existing entry and keeps the entries of all other
\* session ids, so the document holds one entry per initialized session.
C9_SessionEntryCreatedOnce ==
    Initialized =>
        \A u \in LastUsers :
            LET prior == SessionPrefs(last.before[u])
                now == SessionPrefs(store[u])
            IN  /\ DOMAIN now = (DOMAIN prior) \cup {last.id}
                /\ \A S \in DOMAIN prior : now[S] = prior[S]
                /\ last.id \notin DOMAIN prior =>
                       DOMAIN now[last.id] = RegisteredSessionKeys

\* C9 witness: a session whose entry had been changed by an update is
\* initialized again, next to another session's entry
C9_Witness ==
    /\ Initialized
    /\ \E u \in LastUsers :
          /\ last.id \in DOMAIN SessionPrefs(last.before[u])
          /\ SessionPrefs(last.before[u])[last.id]["desk:last_worked"]
                = "patched"
          /\ Cardinality(DOMAIN SessionPrefs(store[u])) > 1

\* C10: a new session entry has desk:last_worked equal to the user's desk
\* when the user has one and to the empty default otherwise, and every
\* other key at its registry default.
C10_NewEntryDefaults ==
    Initialized =>
        \A u \in LastUsers :
            last.id \notin DOMAIN SessionPrefs(last.before[u]) =>
                LET entry == SessionPrefs(store[u])[last.id]
                    desk == Get(last.before[u], "desk", "")
                IN  /\ DOMAIN entry = RegisteredSessionKeys
                    /\ entry["desk:last_worked"] = desk
                    /\ entry["scratchpad:items"] = "[]"
                    /\ entry["desk:items"] = "[]"
                    /\ entry["stage:items"] = "[]"
                    /\ entry["pinned:items"] = "[]"

\* C10 witness: a session of a user with desk desk42 got its entry
C10_Witness ==
    /\ Initialized
    /\ \E u \in LastUsers :
          /\ last.id \notin DOMAIN SessionPrefs(last.before[u])
          /\ Get(last.before[u], "desk", "") = "desk42"
          /\ SessionPrefs(store[u])[last.id]["desk:last_worked"] = "desk42"

====
